---- MODULE Spec2Model ----
(***************************************************************************)
(* Model of the cantara-slides crate (src/src/slides.rs): the slide value  *)
(* types, their constructors and normalisation of text, the structural     *)
(* queries has_spoiler / has_meta_text, the media builder, the chapter     *)
(* constructor and the serde (JSON) encoding the derives generate.         *)
(*                                                                         *)
(* A Rust String is a sequence of characters; Option<X> is a record with   *)
(* a `some` flag; an enum value is a record [variant, payload].            *)
(***************************************************************************)
EXTENDS Integers, Sequences, FiniteSets, TLC

VARIABLES
    input,      \* the texts the host is about to pass to a constructor
    call,       \* the last constructor / builder call, with its arguments
    slide,      \* Option<Slide<M>>: the slide value the host holds
    result,     \* the answer of the last query made on `slide`
    types,      \* the host's choice of the type parameters T and M
    given,      \* the arguments given to PresentationChapter::new
    chapter,    \* Option<PresentationChapter<T, M>>
    payload,    \* Option<JSON value>: the serialized chapter
    tamper,     \* what was done to the payload between encoding and decoding
    decoded     \* Option<Result<PresentationChapter<T, M>, Error>>

slideVars == <<input, call, slide, result>>
chapterVars == <<types, given, chapter, payload, tamper, decoded>>
vars == <<input, call, slide, result, types, given, chapter, payload, tamper, decoded>>

----------------------------------------------------------------------------
(* Bounds *)

MaxLen == 4        \* longest main / title text drawn as constructor input
MaxOptLen == 2     \* longest optional text drawn as constructor input
MaxVec == 1        \* longest main_text_list / spoiler_text_vector of a literal slide
MaxSlides == 2     \* longest slide sequence given to PresentationChapter::new

----------------------------------------------------------------------------
(* Option<X> and Result<X, E> *)

None == [some |-> FALSE]
Some(x) == [some |-> TRUE, v |-> x]
Option(S) == {None} \cup {Some(x) : x \in S}

Err == [ok |-> FALSE]
Ok(x) == [ok |-> TRUE, v |-> x]

----------------------------------------------------------------------------
(* Strings *)

Whitespace == {" ", "\t"}
Chars == Whitespace \cup {"a"}

\* char::is_whitespace
IsWhitespace(c) == c \in Whitespace

StrOfLen(n) == [1..n -> Chars]
StrUpTo(n) == UNION {StrOfLen(k) : k \in 0..n}

RECURSIVE TrimStart(_)
TrimStart(s) ==
    IF s = <<>> THEN s
    ELSE IF IsWhitespace(Head(s)) THEN TrimStart(Tail(s)) ELSE s

RECURSIVE TrimEnd(_)
TrimEnd(s) ==
    IF s = <<>> THEN s
    ELSE IF IsWhitespace(s[Len(s)]) THEN TrimEnd(SubSeq(s, 1, Len(s) - 1)) ELSE s

\* A trim that removes the leading whitespace only.
TrimLeadingOnly(s) == TrimStart(s)

\* A trim that removes at most one whitespace character at each end.
TrimOneEach(s) ==
    LET a == IF s # <<>> /\ IsWhitespace(Head(s)) THEN Tail(s) ELSE s
    IN IF a # <<>> /\ IsWhitespace(a[Len(a)]) THEN SubSeq(a, 1, Len(a) - 1) ELSE a

\* str::trim followed by to_string
Trim(s) == TrimEnd(TrimStart(s))

\* str::is_empty
IsEmpty(s) == Len(s) = 0

\* Option::map(|s| s.trim().to_string())
TrimOpt(o) == IF o.some THEN Some(Trim(o.v)) ELSE None

----------------------------------------------------------------------------
(* Slide content *)

EmptySlide(b) == [variant |-> "Empty", payload |-> [black_background |-> b]]

TitleSlide(title, meta) ==
    [variant |-> "Title", payload |-> [title_text |-> title, meta_text |-> meta]]

SingleLanguage(main, spoiler, meta) ==
    [variant |-> "SingleLanguageMainContent",
     payload |-> [main_text |-> main, spoiler_text |-> spoiler, meta_text |-> meta]]

MultiLanguage(mains, spoilers, meta) ==
    [variant |-> "MultiLanguageMainContent",
     payload |-> [main_text_list |-> mains, spoiler_text_vector |-> spoilers,
                  meta_text |-> meta]]

SimplePicture(path) ==
    [variant |-> "SimplePicture", payload |-> [picture_path |-> path]]

\* the closure `filter` of SingleLanguageMainContentSlide::new
FilterBlank(o) == IF o.some /\ ~IsEmpty(Trim(o.v)) THEN o ELSE None

SingleLanguageMainContentSlideNew(main_text, spoiler_text, meta_text) ==
    SingleLanguage(main_text, FilterBlank(spoiler_text), FilterBlank(meta_text))

----------------------------------------------------------------------------
(* Slide<M> *)

Slide(content, file) == [slide_content |-> content, linked_file |-> file]

new_empty_slide(black_background) == Slide(EmptySlide(black_background), None)

new_content_slide(main_text, spoiler_text, meta_text) ==
    Slide(SingleLanguageMainContentSlideNew(
              Trim(main_text), TrimOpt(spoiler_text), TrimOpt(meta_text)),
          None)

new_title_slide(title_text, meta_text) ==
    Slide(TitleSlide(Trim(title_text), TrimOpt(meta_text)), None)

\* A builder that returns a fresh empty slide carrying the media.
with_media_fresh(s, media) == Slide(EmptySlide(TRUE), Some(media))

\* A builder that leaves an attachment already made in place.
with_media_keep_first(s, media) ==
    IF s.linked_file.some THEN s ELSE [s EXCEPT !.linked_file = Some(media)]

with_media(s, media) == [s EXCEPT !.linked_file = Some(media)]

\* A has_spoiler that looks at the single-language variant only.
has_spoiler_single_only(s) ==
    /\ s.slide_content.variant = "SingleLanguageMainContent"
    /\ s.slide_content.payload.spoiler_text.some

has_spoiler(s) ==
    LET c == s.slide_content IN
    CASE c.variant = "SingleLanguageMainContent" -> c.payload.spoiler_text.some
      [] c.variant = "MultiLanguageMainContent" -> c.payload.spoiler_text_vector # <<>>
      [] OTHER -> FALSE

\* A has_meta_text that forgets the title variant.
has_meta_text_no_title(s) ==
    LET c == s.slide_content IN
    CASE c.variant = "SingleLanguageMainContent" -> c.payload.meta_text.some
      [] c.variant = "MultiLanguageMainContent" -> c.payload.meta_text.some
      [] OTHER -> FALSE

has_meta_text(s) ==
    LET c == s.slide_content IN
    CASE c.variant = "SingleLanguageMainContent" -> c.payload.meta_text.some
      [] c.variant = "Title" -> c.payload.meta_text.some
      [] c.variant = "MultiLanguageMainContent" -> c.payload.meta_text.some
      [] OTHER -> FALSE

----------------------------------------------------------------------------
(* The host's types for T and M.  The crate's tests use Song / SongFile    *)
(* and String / String; any type with the serde capabilities is allowed,   *)
(* Option<String> among them.  A value carries the name of its type.       *)

SampleTexts == {<<"a">>, <<"a", " ", "a">>}

ValuesOf(ty) ==
    CASE ty = "Song" -> {[Song |-> [id |-> 42, title |-> t]] : t \in SampleTexts}
      [] ty = "SongFile" -> {[SongFile |-> [path |-> t]] : t \in SampleTexts}
      [] ty = "String" -> {[String |-> t] : t \in SampleTexts}
      [] ty = "OptionString" -> {[OptionString |-> o] : o \in Option({<<"a">>})}

TypePairs == {[T |-> "Song", M |-> "SongFile"], [T |-> "String", M |-> "String"],
              [T |-> "String", M |-> "OptionString"]}

----------------------------------------------------------------------------
(* Slide values a host can write down with struct literals: every field of *)
(* Slide, SlideContent and the payload structs is public.                  *)

\* the texts of the slides whose structure, not text, is looked at
ShortTexts == {<<>>, <<" ">>, <<"a">>, <<"\t", "a">>}
TextVecs == UNION {[1..n -> {<<"a">>, <<>>}] : n \in 0..MaxVec}

LiteralContents ==
    {EmptySlide(b) : b \in BOOLEAN}
    \cup {TitleSlide(t, m) : t \in ShortTexts, m \in Option(ShortTexts)}
    \cup {SingleLanguage(t, s, m) :
              t \in ShortTexts, s \in Option(ShortTexts), m \in Option(ShortTexts)}
    \cup {MultiLanguage(l, v, m) : l \in TextVecs, v \in TextVecs, m \in Option({<<"a">>})}
    \cup {SimplePicture(t) : t \in ShortTexts}

----------------------------------------------------------------------------
(* Operations on the slide the host holds *)

NoCall == [op |-> "none"]

NewEmptySlide(b) ==
    /\ slide' = Some(new_empty_slide(b))
    /\ call' = [op |-> "new_empty_slide", black_background |-> b]
    /\ result' = None
    /\ UNCHANGED <<input, chapterVars>>

NewContentSlide(main, spoiler, meta) ==
    /\ slide' = Some(new_content_slide(main, spoiler, meta))
    /\ call' = [op |-> "new_content_slide", rebuilt |-> FALSE]
    /\ result' = None
    /\ UNCHANGED <<input, chapterVars>>

NewTitleSlide(title, meta) ==
    /\ slide' = Some(new_title_slide(title, meta))
    /\ call' = [op |-> "new_title_slide", rebuilt |-> FALSE]
    /\ result' = None
    /\ UNCHANGED <<input, chapterVars>>

LiteralSlide(content) ==
    /\ slide' = Some(Slide(content, None))
    /\ call' = [op |-> "literal"]
    /\ result' = None
    /\ UNCHANGED <<input, chapterVars>>

WithMedia(media) ==
    /\ slide.some
    /\ slide' = Some(with_media(slide.v, media))
    /\ call' = [op |-> "with_media", media |-> media, previous |-> slide.v.linked_file]
    /\ result' = None
    /\ UNCHANGED <<input, chapterVars>>

HasSpoiler ==
    /\ slide.some
    /\ result' = Some([op |-> "has_spoiler", value |-> has_spoiler(slide.v)])
    /\ UNCHANGED <<input, call, slide, chapterVars>>

HasMetaText ==
    /\ slide.some
    /\ result' = Some([op |-> "has_meta_text", value |-> has_meta_text(slide.v)])
    /\ UNCHANGED <<input, call, slide, chapterVars>>

----------------------------------------------------------------------------
(* Spec: a host that builds slides, attaches media and queries them *)

NoInput == [main |-> <<>>, spoiler |-> None, meta |-> None]
NoTypes == [T |-> "String", M |-> "String"]

IdleChapter ==
    /\ given = None
    /\ chapter = None
    /\ payload = None
    /\ tamper = "none"
    /\ decoded = None

Init ==
    /\ input = NoInput
    /\ call = NoCall
    /\ slide = None
    /\ result = None
    /\ types \in TypePairs
    /\ IdleChapter

Next ==
    \/ \E b \in BOOLEAN : NewEmptySlide(b)
    \/ \E t \in ShortTexts, s \in Option(ShortTexts), m \in Option(ShortTexts) :
           NewContentSlide(t, s, m)
    \/ \E t \in ShortTexts, m \in Option(ShortTexts) : NewTitleSlide(t, m)
    \/ \E c \in LiteralContents : LiteralSlide(c)
    \/ \E m \in ValuesOf(types.M) : WithMedia(m)
    \/ HasSpoiler
    \/ HasMetaText

Spec == Init /\ [][Next]_vars

----------------------------------------------------------------------------
(* SpecNormalize: the constructors applied to every text up to the bounds  *)

InitNormalize ==
    /\ input \in [main : StrUpTo(MaxLen), spoiler : Option(StrUpTo(MaxOptLen)),
                  meta : Option(StrUpTo(MaxOptLen))]
    /\ call = NoCall
    /\ slide = None
    /\ result = None
    /\ types = NoTypes
    /\ IdleChapter

BuildContent ==
    /\ call = NoCall
    /\ NewContentSlide(input.main, input.spoiler, input.meta)

BuildTitle ==
    /\ call = NoCall
    /\ NewTitleSlide(input.main, input.meta)

\* the host calls the constructor again with the fields the slide stores
RebuildContent ==
    /\ call.op = "new_content_slide"
    /\ LET p == slide.v.slide_content.payload IN
       /\ input' = [main |-> p.main_text, spoiler |-> p.spoiler_text, meta |-> p.meta_text]
       /\ slide' = Some(new_content_slide(p.main_text, p.spoiler_text, p.meta_text))
    /\ call' = [call EXCEPT !.rebuilt = TRUE]
    /\ UNCHANGED <<result, chapterVars>>

RebuildTitle ==
    /\ call.op = "new_title_slide"
    /\ LET p == slide.v.slide_content.payload IN
       /\ input' = [input EXCEPT !.main = p.title_text, !.meta = p.meta_text]
       /\ slide' = Some(new_title_slide(p.title_text, p.meta_text))
    /\ call' = [call EXCEPT !.rebuilt = TRUE]
    /\ UNCHANGED <<result, chapterVars>>

NextNormalize ==
    \/ BuildContent
    \/ BuildTitle
    \/ RebuildContent
    \/ RebuildTitle

SpecNormalize == InitNormalize /\ [][NextNormalize]_vars

----------------------------------------------------------------------------
(* PresentationChapter<T, M> and LinkedEntity<T, M> *)

Source(t) == [variant |-> "Source", payload |-> t]
Title(s) == [variant |-> "Title", payload |-> [String |-> s]]
Media(m) == [variant |-> "Media", payload |-> m]

\* A constructor that stores the slides in reverse order.
PresentationChapterNewReversed(slides, linked_entity) ==
    [slides |-> [i \in 1..Len(slides) |-> slides[Len(slides) + 1 - i]],
     linked_entity |-> linked_entity]

PresentationChapterNew(slides, linked_entity) ==
    [slides |-> slides, linked_entity |-> linked_entity]

----------------------------------------------------------------------------
(* JSON values, as serde_json reads and writes them *)

JNull == [t |-> "null"]
JBool(b) == [t |-> "bool", b |-> b]
JNum(n) == [t |-> "num", n |-> n]
JStr(s) == [t |-> "str", s |-> s]
JArr(a) == [t |-> "arr", a |-> a]
JObj(o) == [t |-> "obj", o |-> o]

----------------------------------------------------------------------------
(* derive(Serialize): a struct is an object keyed by its field names, an   *)
(* enum value is an object with the variant's name as its one key, an      *)
(* Option is null or the value itself, a Vec is an array.                  *)

\* Option<String>
SerOptString(o) == IF o.some THEN JStr(o.v) ELSE JNull

\* Vec<String>
SerStrings(v) == JArr([i \in 1..Len(v) |-> JStr(v[i])])

\* the Serialize of the host's types
SerValue(x) ==
    CASE "Song" \in DOMAIN x ->
             JObj([id |-> JNum(x.Song.id), title |-> JStr(x.Song.title)])
      [] "SongFile" \in DOMAIN x -> JObj([path |-> JStr(x.SongFile.path)])
      [] "String" \in DOMAIN x -> JStr(x.String)
      [] "OptionString" \in DOMAIN x -> SerOptString(x.OptionString)

\* Option<M>
SerOptValue(o) == IF o.some THEN SerValue(o.v) ELSE JNull

SerPayload(c) ==
    LET p == c.payload IN
    CASE c.variant = "SingleLanguageMainContent" ->
             JObj([main_text |-> JStr(p.main_text),
                   spoiler_text |-> SerOptString(p.spoiler_text),
                   meta_text |-> SerOptString(p.meta_text)])
      [] c.variant = "Title" ->
             JObj([title_text |-> JStr(p.title_text),
                   meta_text |-> SerOptString(p.meta_text)])
      [] c.variant = "MultiLanguageMainContent" ->
             JObj([main_text_list |-> SerStrings(p.main_text_list),
                   spoiler_text_vector |-> SerStrings(p.spoiler_text_vector),
                   meta_text |-> SerOptString(p.meta_text)])
      [] c.variant = "SimplePicture" -> JObj([picture_path |-> JStr(p.picture_path)])
      [] c.variant = "Empty" -> JObj([black_background |-> JBool(p.black_background)])

SerSlideContent(c) == JObj(c.variant :> SerPayload(c))

\* An encoding of a slide that never writes the attached media.
SerSlideWithoutMedia(s) ==
    JObj([slide_content |-> SerSlideContent(s.slide_content), linked_file |-> JNull])

SerSlide(s) ==
    JObj([slide_content |-> SerSlideContent(s.slide_content),
          linked_file |-> SerOptValue(s.linked_file)])

\* Vec<Slide<M>>
SerSlides(v) == JArr([i \in 1..Len(v) |-> SerSlide(v[i])])

SerLinkedEntity(e) == JObj(e.variant :> SerValue(e.payload))

SerChapter(c) ==
    JObj([slides |-> SerSlides(c.slides),
          linked_entity |-> SerLinkedEntity(c.linked_entity)])

----------------------------------------------------------------------------------------------------------------------------------------------
(* derive(Deserialize).  A struct is read from an object (a key that is    *)
(* not a field is skipped; a field that has no key is read from serde's    *)
(* missing-field deserializer, which gives None to an Option and an error  *)
(* to every other type) or from an array holding exactly its fields in     *)
(* order.  An enum value is read from an object with exactly one key,      *)
(* which must name a variant.                                              *)

\* what a field without a key is read from
JMissing == [t |-> "missing"]

DeString(j) == IF j.t = "str" THEN Ok(j.s) ELSE Err
DeBool(j) == IF j.t = "bool" THEN Ok(j.b) ELSE Err
DeU32(j) == IF j.t = "num" /\ j.n >= 0 THEN Ok(j.n) ELSE Err

\* An Option reader that takes null only for None.
DeOptionNullOnly(j, inner) ==
    IF j.t = "null" THEN Ok(None)
    ELSE IF inner.ok THEN Ok(Some(inner.v)) ELSE Err

\* Option<X> from j, where inner is X read from j
DeOption(j, inner) ==
    IF j.t \in {"null", "missing"} THEN Ok(None)
    ELSE IF inner.ok THEN Ok(Some(inner.v)) ELSE Err

DeOptString(j) == DeOption(j, DeString(j))

\* Vec<String>
DeStrings(j) ==
    IF j.t = "arr"
    THEN LET r == [i \in 1..Len(j.a) |-> DeString(j.a[i])] IN
         IF \A i \in 1..Len(j.a) : r[i].ok
         THEN Ok([i \in 1..Len(j.a) |-> r[i].v])
         ELSE Err
    ELSE Err

\* the keyed values a struct visitor sees: visit_map, or visit_seq by position
StructFields(j, names) ==
    IF j.t = "obj" THEN Ok(j.o)
    ELSE IF j.t = "arr" /\ Len(j.a) = Len(names)
    THEN Ok([k \in {names[i] : i \in 1..Len(names)} |->
                 j.a[CHOOSE i \in 1..Len(names) : names[i] = k]])
    ELSE Err

\* what the field k is read from
FieldOf(f, k) == IF k \in DOMAIN f THEN f[k] ELSE JMissing

DeValue(ty, j) ==
    CASE ty = "Song" ->
             LET f == StructFields(j, <<"id", "title">>) IN
             IF ~f.ok THEN Err
             ELSE LET id == DeU32(FieldOf(f.v, "id"))
                      title == DeString(FieldOf(f.v, "title"))
                  IN IF id.ok /\ title.ok
                     THEN Ok([Song |-> [id |-> id.v, title |-> title.v]])
                     ELSE Err
      [] ty = "SongFile" ->
             LET f == StructFields(j, <<"path">>) IN
             IF ~f.ok THEN Err
             ELSE LET path == DeString(FieldOf(f.v, "path"))
                  IN IF path.ok THEN Ok([SongFile |-> [path |-> path.v]]) ELSE Err
      [] ty = "String" ->
             LET r == DeString(j) IN IF r.ok THEN Ok([String |-> r.v]) ELSE Err
      [] ty = "OptionString" ->
             LET r == DeOptString(j)
             IN IF r.ok THEN Ok([OptionString |-> r.v]) ELSE Err

DeSingleLanguage(j) ==
    LET f == StructFields(j, <<"main_text", "spoiler_text", "meta_text">>) IN
    IF ~f.ok THEN Err
    ELSE LET main == DeString(FieldOf(f.v, "main_text"))
             spoiler == DeOptString(FieldOf(f.v, "spoiler_text"))
             meta == DeOptString(FieldOf(f.v, "meta_text"))
         IN IF main.ok /\ spoiler.ok /\ meta.ok
            THEN Ok([main_text |-> main.v, spoiler_text |-> spoiler.v,
                     meta_text |-> meta.v])
            ELSE Err

DeTitle(j) ==
    LET f == StructFields(j, <<"title_text", "meta_text">>) IN
    IF ~f.ok THEN Err
    ELSE LET title == DeString(FieldOf(f.v, "title_text"))
             meta == DeOptString(FieldOf(f.v, "meta_text"))
         IN IF title.ok /\ meta.ok
            THEN Ok([title_text |-> title.v, meta_text |-> meta.v])
            ELSE Err

DeMultiLanguage(j) ==
    LET f == StructFields(j, <<"main_text_list", "spoiler_text_vector", "meta_text">>) IN
    IF ~f.ok THEN Err
    ELSE LET mains == DeStrings(FieldOf(f.v, "main_text_list"))
             spoilers == DeStrings(FieldOf(f.v, "spoiler_text_vector"))
             meta == DeOptString(FieldOf(f.v, "meta_text"))
         IN IF mains.ok /\ spoilers.ok /\ meta.ok
            THEN Ok([main_text_list |-> mains.v, spoiler_text_vector |-> spoilers.v,
                     meta_text |-> meta.v])
            ELSE Err

DeSimplePicture(j) ==
    LET f == StructFields(j, <<"picture_path">>) IN
    IF ~f.ok THEN Err
    ELSE LET path == DeString(FieldOf(f.v, "picture_path"))
         IN IF path.ok THEN Ok([picture_path |-> path.v]) ELSE Err

DeEmpty(j) ==
    LET f == StructFields(j, <<"black_background">>) IN
    IF ~f.ok THEN Err
    ELSE LET b == DeBool(FieldOf(f.v, "black_background"))
         IN IF b.ok THEN Ok([black_background |-> b.v]) ELSE Err

\* the variant named by an externally tagged enum value, with its content
EnumAccess(j, variants) ==
    IF j.t = "obj" /\ Cardinality(DOMAIN j.o) = 1
    THEN LET tag == CHOOSE k \in DOMAIN j.o : TRUE IN
         IF tag \in variants THEN Ok([variant |-> tag, content |-> j.o[tag]]) ELSE Err
    ELSE Err

SlideContentVariants ==
    {"SingleLanguageMainContent", "Title", "MultiLanguageMainContent",
     "SimplePicture", "Empty"}

DeSlideContent(j) ==
    LET e == EnumAccess(j, SlideContentVariants) IN
    IF ~e.ok THEN Err
    ELSE LET p == CASE e.v.variant = "SingleLanguageMainContent" ->
                           DeSingleLanguage(e.v.content)
                    [] e.v.variant = "Title" -> DeTitle(e.v.content)
                    [] e.v.variant = "MultiLanguageMainContent" ->
                           DeMultiLanguage(e.v.content)
                    [] e.v.variant = "SimplePicture" -> DeSimplePicture(e.v.content)
                    [] e.v.variant = "Empty" -> DeEmpty(e.v.content)
         IN IF p.ok THEN Ok([variant |-> e.v.variant, payload |-> p.v]) ELSE Err

DeSlide(tyM, j) ==
    LET f == StructFields(j, <<"slide_content", "linked_file">>) IN
    IF ~f.ok THEN Err
    ELSE LET content == DeSlideContent(FieldOf(f.v, "slide_content"))
             file == DeOption(FieldOf(f.v, "linked_file"),
                              DeValue(tyM, FieldOf(f.v, "linked_file")))
         IN IF content.ok /\ file.ok THEN Ok(Slide(content.v, file.v)) ELSE Err

\* Vec<Slide<M>>
DeSlides(tyM, j) ==
    IF j.t = "arr"
    THEN LET r == [i \in 1..Len(j.a) |-> DeSlide(tyM, j.a[i])] IN
         IF \A i \in 1..Len(j.a) : r[i].ok
         THEN Ok([i \in 1..Len(j.a) |-> r[i].v])
         ELSE Err
    ELSE Err

LinkedEntityVariants == {"Source", "Title", "Media"}

DeLinkedEntity(tyT, tyM, j) ==
    LET e == EnumAccess(j, LinkedEntityVariants) IN
    IF ~e.ok THEN Err
    ELSE LET ty == CASE e.v.variant = "Source" -> tyT
                     [] e.v.variant = "Title" -> "String"
                     [] e.v.variant = "Media" -> tyM
             p == DeValue(ty, e.v.content)
         IN IF p.ok THEN Ok([variant |-> e.v.variant, payload |-> p.v]) ELSE Err

DeChapter(tyT, tyM, j) ==
    LET f == StructFields(j, <<"slides", "linked_entity">>) IN
    IF ~f.ok THEN Err
    ELSE LET slides == DeSlides(tyM, FieldOf(f.v, "slides"))
             entity == DeLinkedEntity(tyT, tyM, FieldOf(f.v, "linked_entity"))
         IN IF slides.ok /\ entity.ok
            THEN Ok([slides |-> slides.v, linked_entity |-> entity.v])
            ELSE Err

----------
(* Payloads that do not follow the schema: an encoded chapter with one     *)
(* place changed.  A place is a path of object keys and array indices.     *)

Key(k) == [k |-> k]
Idx(i) == [i |-> i]

RECURSIVE Paths(_)
Paths(j) ==
    {<<>>} \cup
    (IF j.t = "obj"
     THEN UNION {{<<Key(k)>> \o p : p \in Paths(j.o[k])} : k \in DOMAIN j.o}
     ELSE IF j.t = "arr"
     THEN UNION {{<<Idx(i)>> \o p : p \in Paths(j.a[i])} : i \in 1..Len(j.a)}
     ELSE {})

RECURSIVE Get(_, _)
Get(j, p) ==
    IF p = <<>> THEN j
    ELSE IF j.t = "obj" THEN Get(j.o[Head(p).k], Tail(p))
    ELSE Get(j.a[Head(p).i], Tail(p))

RECURSIVE Put(_, _, _)
Put(j, p, x) ==
    IF p = <<>> THEN x
    ELSE IF j.t = "obj"
    THEN JObj([j.o EXCEPT ![Head(p).k] = Put(@, Tail(p), x)])
    ELSE JArr([j.a EXCEPT ![Head(p).i] = Put(@, Tail(p), x)])

Without(o, k) == [x \in DOMAIN o \ {k} |-> o[x]]

\* the objects that encode an enum value are the values of these two fields
IsEnumPlace(p) ==
    /\ p # <<>>
    /\ "k" \in DOMAIN p[Len(p)]
    /\ p[Len(p)].k \in {"slide_content", "linked_entity"}

\* the places that hold a value of the host's types T and M: the value of a
\* linked_file and the content of a LinkedEntity
IsHostPlace(p) ==
    /\ p # <<>>
    /\ \/ p[Len(p)] = Key("linked_file")
       \/ Len(p) >= 2 /\ p[Len(p) - 1] = Key("linked_entity")

\* the places inside a value of the host's types, whose schema is the host's
InsideHost(p) == \E i \in 1..(Len(p) - 1) : IsHostPlace(SubSeq(p, 1, i))

\* the fields of the schema whose type is Option
OptionalFields == {"linked_file", "spoiler_text", "meta_text"}

\* the structs of the schema, each with its fields in declaration order
StructOrders ==
    {<<"slides", "linked_entity">>, <<"slide_content", "linked_file">>,
     <<"main_text", "spoiler_text", "meta_text">>,
     <<"main_text_list", "spoiler_text_vector", "meta_text">>,
     <<"title_text", "meta_text">>, <<"picture_path">>, <<"black_background">>}

\* the array that holds the fields of the struct object o in order
Positional(o) ==
    LET names == CHOOSE n \in StructOrders : {n[i] : i \in 1..Len(n)} = DOMAIN o
    IN JArr([i \in 1..Len(names) |-> o[names[i]]])

\* a value of a JSON type that no field of the schema has where j stands
WrongType(j) == IF j.t = "bool" THEN JNum(0) ELSE JBool(TRUE)

Tamperings(j) ==
    LET places == {p \in Paths(j) : ~InsideHost(p)}
        objects == {p \in places : Get(j, p).t = "obj" /\ ~IsHostPlace(p)}
        enums == {p \in objects : IsEnumPlace(p)}
        structs == objects \ enums
    IN  {[kind |-> "unknown_tag",
          j |-> Put(j, p, JObj("Unknown" :> Get(j, p).o[CHOOSE k \in DOMAIN Get(j, p).o : TRUE]))] :
             p \in enums}
        \cup {[kind |-> "extra_tag", j |-> Put(j, p, JObj(("Unknown" :> JNull) @@ Get(j, p).o))] :
                 p \in enums}
        \cup {[kind |-> "no_tag", j |-> Put(j, p, JObj(<<>>))] : p \in enums}
        \cup UNION {{[kind |-> IF k \in OptionalFields THEN "missing_optional"
                               ELSE "missing_required",
                      j |-> Put(j, p, JObj(Without(Get(j, p).o, k)))] :
                         k \in DOMAIN Get(j, p).o} : p \in structs}
        \cup {[kind |-> "extra_field", j |-> Put(j, p, JObj(("extra" :> JNull) @@ Get(j, p).o))] :
                 p \in structs}
        \cup {[kind |-> "positional", j |-> Put(j, p, Positional(Get(j, p).o))] :
                 p \in structs}
        \cup {[kind |-> "wrong_type", j |-> Put(j, p, WrongType(Get(j, p)))] : p \in places}

----------------------------------------------------------------------------
(* SpecChapter: a host that assembles a chapter, encodes it as JSON and    *)
(* decodes what it reads back; what it reads may have been changed.        *)

SeqUpTo(S, n) == UNION {[1..k -> S] : k \in 0..n}

\* the host's slides: built by the constructors and the builder, or literals
SlidePool(tyM) ==
    LET m == CHOOSE x \in ValuesOf(tyM) : TRUE IN
    {with_media(new_empty_slide(TRUE), x) : x \in ValuesOf(tyM)}
    \cup {new_content_slide(<<"a", " ", "a">>, Some(<<"a">>), None),
          new_title_slide(<<" ", "a">>, Some(<<"a">>)),
          with_media(Slide(MultiLanguage(<<<<"a">>, <<>>>>, <<<<"a">>>>, None), None), m),
          Slide(SimplePicture(<<"a">>), None)}

Entities(ty) ==
    {Source(t) : t \in ValuesOf(ty.T)}
    \cup {Title(<<"a">>)}
    \cup {Media(m) : m \in ValuesOf(ty.M)}

InitChapter ==
    /\ input = NoInput
    /\ call = NoCall
    /\ slide = None
    /\ result = None
    /\ types \in TypePairs
    /\ given \in {Some(g) : g \in [slides : SeqUpTo(SlidePool(types.M), MaxSlides),
                                   linked_entity : Entities(types)]}
    /\ chapter = None
    /\ payload = None
    /\ tamper = "none"
    /\ decoded = None

NewChapter ==
    /\ chapter = None
    /\ chapter' = Some(PresentationChapterNew(given.v.slides, given.v.linked_entity))
    /\ UNCHANGED <<slideVars, types, given, payload, tamper, decoded>>

\* serde_json::to_string
Serialize ==
    /\ chapter.some
    /\ payload = None
    /\ payload' = Some(SerChapter(chapter.v))
    /\ UNCHANGED <<slideVars, types, given, chapter, tamper, decoded>>

Tamper ==
    /\ payload.some
    /\ tamper = "none"
    /\ decoded = None
    /\ \E x \in Tamperings(payload.v) :
           /\ payload' = Some(x.j)
           /\ tamper' = x.kind
    /\ UNCHANGED <<slideVars, types, given, chapter, decoded>>

\* serde_json::from_str
Deserialize ==
    /\ payload.some
    /\ decoded = None
    /\ decoded' = Some(DeChapter(types.T, types.M, payload.v))
    /\ UNCHANGED <<slideVars, types, given, chapter, payload, tamper>>

NextChapter ==
    \/ NewChapter
    \/ Serialize
    \/ Tamper
    \/ Deserialize

SpecChapter == InitChapter /\ [][NextChapter]_vars

----------------------------------------------------------------------------
(* Properties *)

content == slide.v.slide_content
stored == slide.v.slide_content.payload

Blank(s) == \A i \in 1..Len(s) : IsWhitespace(s[i])

\* an optional text is absent, or holds a character that is not whitespace
AbsentOrVisible(o) == ~o.some \/ ~Blank(o.v)

\* a blank optional input was stored as absent
BlankDropped(in, o) == (in.some /\ Blank(in.v)) => ~o.some

\* out is the text in without its leading and trailing whitespace: in is
\* whitespace, then out, then whitespace, and out neither starts nor ends
\* with whitespace
IsTrimOf(out, in) ==
    \E i \in 0..Len(in), j \in 0..Len(in) :
        /\ i + j <= Len(in)
        /\ out = SubSeq(in, i + 1, Len(in) - j)
        /\ \A k \in 1..i : IsWhitespace(in[k])
        /\ \A k \in (Len(in) - j + 1)..Len(in) : IsWhitespace(in[k])
        /\ out # <<>> => ~IsWhitespace(out[1]) /\ ~IsWhitespace(out[Len(out)])

\* a stored optional text is the trimmed text of an input that was present
OptIsTrimOf(o, in) == o.some => in.some /\ IsTrimOf(o.v, in.v)

\* C1: every optional text field stored by new_content_slide (spoiler_text,
\* meta_text) and by new_title_slide (meta_text) is absent or holds a text
\* with a non-whitespace character, and an empty or whitespace-only input is
\* stored as absent.
C1_OptionalTextNeverBlank ==
    /\ call.op = "new_content_slide" =>
           /\ AbsentOrVisible(stored.spoiler_text)
           /\ AbsentOrVisible(stored.meta_text)
           /\ BlankDropped(input.spoiler, stored.spoiler_text)
           /\ BlankDropped(input.meta, stored.meta_text)
    /\ call.op = "new_title_slide" =>
           /\ AbsentOrVisible(stored.meta_text)
           /\ BlankDropped(input.meta, stored.meta_text)

\* C2: the main_text stored by new_content_slide and the title_text stored by
\* new_title_slide are the input without its leading and trailing whitespace,
\* the characters between kept as given; an optional text that is stored is
\* the trimmed text of its input.
C2_StoredTextIsTrimmedInput ==
    /\ call.op = "new_content_slide" =>
           /\ IsTrimOf(stored.main_text, input.main)
           /\ OptIsTrimOf(stored.spoiler_text, input.spoiler)
           /\ OptIsTrimOf(stored.meta_text, input.meta)
    /\ call.op = "new_title_slide" =>
           /\ IsTrimOf(stored.title_text, input.main)
           /\ OptIsTrimOf(stored.meta_text, input.meta)

C2_Witness ==
    /\ call.op = "new_content_slide"
    /\ ~call.rebuilt
    /\ input.main = <<" ", "a", "\t", "a">>
    /\ stored.main_text = <<"a", "\t", "a">>
    /\ input.spoiler = Some(<<"a", " ">>)
    /\ stored.spoiler_text = Some(<<"a">>)

\* C3: has_spoiler answers true exactly for a SingleLanguageMainContent slide
\* whose spoiler_text is present and for a MultiLanguageMainContent slide
\* whose spoiler_text_vector is not empty; it answers false for every Empty,
\* Title and SimplePicture slide, with or without media attached.
C3_HasSpoilerIffSpoilerStored ==
    (result.some /\ result.v.op = "has_spoiler") =>
        /\ result.v.value =
               (\/ /\ content.variant = "SingleLanguageMainContent"
                   /\ stored.spoiler_text # None
                \/ /\ content.variant = "MultiLanguageMainContent"
                   /\ Len(stored.spoiler_text_vector) > 0)
        /\ content.variant \in {"Empty", "Title", "SimplePicture"} => ~result.v.value

C3_Witness ==
    /\ result.some
    /\ result.v.op = "has_spoiler"
    /\ result.v.value
    /\ content.variant = "MultiLanguageMainContent"
    /\ slide.v.linked_file.some

\* C4: has_meta_text answers true exactly for a SingleLanguageMainContent,
\* Title or MultiLanguageMainContent slide whose meta_text is present; it
\* answers false for every Empty and SimplePicture slide.
C4_HasMetaTextIffMetaStored ==
    (result.some /\ result.v.op = "has_meta_text") =>
        /\ result.v.value =
               (/\ content.variant \in {"SingleLanguageMainContent", "Title",
                                        "MultiLanguageMainContent"}
                /\ stored.meta_text # None)
        /\ content.variant \in {"Empty", "SimplePicture"} => ~result.v.value

C4_Witness ==
    /\ result.some
    /\ result.v.op = "has_meta_text"
    /\ result.v.value
    /\ call.op = "new_title_slide"

\* C5: a slide returned by new_empty_slide, new_content_slide or
\* new_title_slide has no linked_file; after with_media the linked_file is
\* present and is the media passed to the last call.
C5_LinkedFileIsLastMedia ==
    /\ call.op \in {"new_empty_slide", "new_content_slide", "new_title_slide"} =>
           slide.v.linked_file = None
    /\ call.op = "with_media" => slide.v.linked_file = Some(call.media)

C5_Witness ==
    /\ call.op = "with_media"
    /\ call.previous.some
    /\ call.previous.v # call.media
    /\ slide.v.linked_file = Some(call.media)

\* C9: with_media changes linked_file only: the slide_content is the same
\* before and after, and so are the answers of has_spoiler and has_meta_text.
C9_WithMediaKeepsContent ==
    [][(\E m \in ValuesOf(types.M) : WithMedia(m)) =>
           /\ slide'.v.slide_content = slide.v.slide_content
           /\ has_spoiler(slide'.v) = has_spoiler(slide.v)
           /\ has_meta_text(slide'.v) = has_meta_text(slide.v)]_vars

C9_Witness ==
    /\ call.op = "with_media"
    /\ content.variant = "SingleLanguageMainContent"
    /\ has_spoiler(slide.v)
    /\ has_meta_text(slide.v)

\* C10: calling the constructor again with the texts a constructed slide
\* stores gives an equal slide, with the same has_spoiler and has_meta_text.
C10_RebuildGivesSameSlide ==
    [][(RebuildContent \/ RebuildTitle) =>
           /\ slide' = slide
           /\ has_spoiler(slide'.v) = has_spoiler(slide.v)
           /\ has_meta_text(slide'.v) = has_meta_text(slide.v)]_vars

C10_Witness ==
    /\ call.op = "new_content_slide"
    /\ call.rebuilt
    /\ stored.main_text = <<"a", " ", "a">>
    /\ stored.spoiler_text = None
    /\ stored.meta_text = Some(<<"a">>)

\* the attached media of every slide of c has an encoding other than null
MediaNeverNull(c) ==
    \A i \in 1..Len(c.slides) :
        c.slides[i].linked_file.some => SerValue(c.slides[i].linked_file.v) # JNull

C7_EveryMismatchRejected ==
    (decoded.some /\ tamper # "none") => ~decoded.v.ok

\* C7: a payload in which an enum object names no variant, has no key or has
\* a second key, a struct object lacks a field whose type is not Option, or a
\* value has a JSON type its place cannot be read from, is rejected.  A
\* struct object that lacks an Option field is decoded with that field None,
\* a key that names no field is skipped, and a struct given as the array of
\* its fields in order is decoded as the struct.
C7_MismatchRejectedUnlessLenient ==
    decoded.some =>
        /\ tamper \in {"unknown_tag", "no_tag", "extra_tag", "missing_required",
                       "wrong_type"} => ~decoded.v.ok
        /\ tamper \in {"extra_field", "positional"} =>
               decoded.v = DeChapter(types.T, types.M, SerChapter(chapter.v))
        /\ tamper = "missing_optional" =>
               /\ decoded.v.ok
               /\ \E p \in Paths(SerChapter(chapter.v)) :
                      /\ Get(SerChapter(chapter.v), p) # JNull
                         => decoded.v.v # chapter.v
                      /\ DeChapter(types.T, types.M,
                                   Put(SerChapter(chapter.v), p, JNull)) = decoded.v

C7_Witness ==
    /\ decoded.some
    /\ tamper = "missing_optional"
    /\ decoded.v.ok
    /\ decoded.v.v # chapter.v
    /\ Len(chapter.v.slides) = 1
    /\ chapter.v.slides[1].linked_file.some
    /\ decoded.v.v.slides[1].linked_file = None

\* C8: PresentationChapter::new returns a chapter whose slides are the given
\* sequence, element by element, and whose linked_entity is the given value;
\* an empty sequence gives a chapter without slides.
C8_ChapterHoldsGivenArguments ==
    chapter.some =>
        /\ Len(chapter.v.slides) = Len(given.v.slides)
        /\ \A i \in 1..Len(given.v.slides) : chapter.v.slides[i] = given.v.slides[i]
        /\ chapter.v.linked_entity = given.v.linked_entity
        /\ given.v.slides = <<>> => chapter.v.slides = <<>>

C8_Witness ==
    /\ chapter.some
    /\ Len(given.v.slides) = 2
    /\ given.v.slides[1] # given.v.slides[2]
    /\ chapter.v.slides = given.v.slides
    /\ chapter.v.linked_entity.variant = "Title"

====
